---- MODULE Spec2Model ----
(***************************************************************************)
(* A model of the typed-column substrate of polars-core                    *)
(* (crates/polars-core/src/datatypes/mod.rs) and of the rolling            *)
(* aggregation surface of integral columns                                 *)
(* (crates/polars-time/src/series/implementations/integers.rs).            *)
(*                                                                         *)
(* The datatypes module is type-level: marker types, trait impls and       *)
(* associated types.  Every impl block is one definition here; a trait     *)
(* is the operator that resolves a type to its impls (none when the        *)
(* build has none, which rustc reports as an error at the use site).       *)
(* Cargo features are a build-time choice, drawn in Init.                  *)
(***************************************************************************)
EXTENDS Integers, Sequences, FiniteSets, TLC

VARIABLES
    features,   \* the cargo features of the build
    marker,     \* the marker type T a generic caller is instantiated with
    dtypes,     \* the values T::get_dtype() has returned to that caller
    impls,      \* the impls the compiler resolved for T
    native,     \* the native scalar type N a numeric kernel is instantiated with
    roundtrip,  \* N::POLARSTYPE and <N::POLARSTYPE as PolarsNumericType>::Native
    ca,         \* the integral column self.0 of a WrapInt<ChunkedArray<T>>
    pc,         \* where a rolling call stands
    req,        \* the SeriesOpsTime call: [op, self, options]
    agg_calls,  \* the RollingAgg calls made on behalf of req
    win,        \* RollingAgg's running window state
    pos,        \* the next position RollingAgg computes
    out,        \* the positions RollingAgg has computed
    work,       \* the windowing steps RollingAgg has taken
    agg_ret,    \* what RollingAgg returned
    ret         \* what the SeriesOpsTime method returned

typeVars == <<features, marker, dtypes, impls, native, roundtrip>>
rollVars == <<ca, pc, req, agg_calls, win, pos, out, work, agg_ret, ret>>
vars == <<typeVars, rollVars>>

None == "none"

\* How often one caller may ask a marker for its logical type.
MaxCalls == 2

----------------------------------------------------------------------------
(* The logical type catalog (mod dtype, enum DataType).                    *)

DT(variant) == <<variant>>
List(inner) == <<"List", inner>>
Array(inner, width) == <<"Array", inner, width>>
Decimal(precision, scale) == <<"Decimal", precision, scale>>
Object(type_name) == <<"Object", type_name>>

IntegerVariants ==
    {"UInt8", "UInt16", "UInt32", "UInt64", "Int8", "Int16", "Int32", "Int64"}
FloatVariants == {"Float32", "Float64"}
ScalarVariants ==
    IntegerVariants \cup FloatVariants
        \cup {"Null", "Boolean", "Utf8", "Binary", "Date", "Datetime",
              "Duration", "Time", "Categorical", "Unknown"}

\* Concrete logical types a column can carry, nested one level deep.
ElementTypes == {DT(v) : v \in ScalarVariants \ {"Null", "Unknown"}}

----------------------------------------------------------------------------
(* Cargo features and the marker types each build declares.                *)

FEATURES == {"dtype-decimal", "dtype-array", "object", "rolling_window"}

MacroMarkers(F) ==
    {"UInt8Type", "UInt16Type", "UInt32Type", "UInt64Type", "Int8Type",
     "Int16Type", "Int32Type", "Int64Type", "Float32Type", "Float64Type",
     "DateType", "DatetimeType", "DurationType", "CategoricalType", "TimeType"}
        \cup (IF "dtype-decimal" \in F THEN {"DecimalType"} ELSE {})

Markers(F) ==
    MacroMarkers(F) \cup {"Utf8Type", "BinaryType", "BooleanType", "ListType"}
        \cup (IF "dtype-array" \in F THEN {"FixedSizeListType"} ELSE {})
        \cup (IF "dtype-decimal" \in F THEN {"Int128Type"} ELSE {})
        \cup (IF "object" \in F THEN {"ObjectType"} ELSE {})

----------------------------------------------------------------------------
(* PolarsDataType::get_dtype, impl by impl.                                *)

\* The macro with DataType::Unknown written where DataType::$variant belongs.
impl_polars_datatype_unknown(ca_, variant, physical) == DT("Unknown")

\* The macro deriving the variant from the marker's own name.
impl_polars_datatype_own(ca_, variant, physical) ==
    DT(CHOOSE v \in ScalarVariants \cup {"Decimal"} : v \o "Type" = ca_)

\* The get_dtype of the impl the macro expands to.
impl_polars_datatype(ca_, variant, physical) == DT(variant)

Utf8Type_get_dtype == DT("Utf8")
BinaryType_get_dtype == DT("Binary")
BooleanType_get_dtype == DT("Boolean")

\* The element left out instead of set to the Null placeholder.
ListType_get_dtype_omitted == <<"List">>

ListType_get_dtype == List(DT("Null"))
FixedSizeListType_get_dtype == Array(DT("Null"), 0)
Int128Type_get_dtype == Decimal(<<"None">>, <<"Some", 0>>)
ObjectType_get_dtype == Object("T::type_name()")

get_dtype(T) ==
    CASE T = "UInt8Type" -> impl_polars_datatype("UInt8Type", "UInt8", "u8")
      [] T = "UInt16Type" -> impl_polars_datatype("UInt16Type", "UInt16", "u16")
      [] T = "UInt32Type" -> impl_polars_datatype("UInt32Type", "UInt32", "u32")
      [] T = "UInt64Type" -> impl_polars_datatype("UInt64Type", "UInt64", "u64")
      [] T = "Int8Type" -> impl_polars_datatype("Int8Type", "Int8", "i8")
      [] T = "Int16Type" -> impl_polars_datatype("Int16Type", "Int16", "i16")
      [] T = "Int32Type" -> impl_polars_datatype("Int32Type", "Int32", "i32")
      [] T = "Int64Type" -> impl_polars_datatype("Int64Type", "Int64", "i64")
      [] T = "Float32Type" -> impl_polars_datatype("Float32Type", "Float32", "f32")
      [] T = "Float64Type" -> impl_polars_datatype("Float64Type", "Float64", "f64")
      [] T = "DateType" -> impl_polars_datatype("DateType", "Date", "i32")
      [] T = "DecimalType" -> impl_polars_datatype("DecimalType", "Unknown", "i128")
      [] T = "DatetimeType" -> impl_polars_datatype("DatetimeType", "Unknown", "i64")
      [] T = "DurationType" -> impl_polars_datatype("DurationType", "Unknown", "i64")
      [] T = "CategoricalType" ->
            impl_polars_datatype("CategoricalType", "Unknown", "u32")
      [] T = "TimeType" -> impl_polars_datatype("TimeType", "Time", "i64")
      [] T = "Utf8Type" -> Utf8Type_get_dtype
      [] T = "BinaryType" -> BinaryType_get_dtype
      [] T = "BooleanType" -> BooleanType_get_dtype
      [] T = "ListType" -> ListType_get_dtype
      [] T = "FixedSizeListType" -> FixedSizeListType_get_dtype
      [] T = "Int128Type" -> Int128Type_get_dtype
      [] T = "ObjectType" -> ObjectType_get_dtype

----------------------------------------------------------------------------
(* NumericNative: the marker each native scalar type names.                *)

POLARSTYPE_i8 == "Int8Type"
POLARSTYPE_i16 == "Int16Type"
POLARSTYPE_i32 == "Int32Type"
POLARSTYPE_i64 == "Int64Type"
POLARSTYPE_u8 == "UInt8Type"
POLARSTYPE_u16 == "UInt16Type"
POLARSTYPE_u32 == "UInt32Type"

\* u64 bound to the marker of the neighbouring impl.
POLARSTYPE_u64_u32 == "UInt32Type"

POLARSTYPE_u64 == "UInt64Type"
POLARSTYPE_i128 == "Int128Type"
POLARSTYPE_f32 == "Float32Type"
POLARSTYPE_f64 == "Float64Type"

NumericNative(F) ==
    {"i8", "i16", "i32", "i64", "u8", "u16", "u32", "u64", "f32", "f64"}
        \cup (IF "dtype-decimal" \in F THEN {"i128"} ELSE {})

POLARSTYPE(N) ==
    CASE N = "i8" -> POLARSTYPE_i8
      [] N = "i16" -> POLARSTYPE_i16
      [] N = "i32" -> POLARSTYPE_i32
      [] N = "i64" -> POLARSTYPE_i64
      [] N = "u8" -> POLARSTYPE_u8
      [] N = "u16" -> POLARSTYPE_u16
      [] N = "u32" -> POLARSTYPE_u32
      [] N = "u64" -> POLARSTYPE_u64
      [] N = "i128" -> POLARSTYPE_i128
      [] N = "f32" -> POLARSTYPE_f32
      [] N = "f64" -> POLARSTYPE_f64

----------------------------------------------------------------------------
(* PolarsNumericType: the native scalar type each numeric marker names.    *)

\* UInt8Type bound to the signed scalar of the same width.
Native_UInt8Type_signed == "i8"

Native_UInt8Type == "u8"
Native_UInt16Type == "u16"
Native_UInt32Type == "u32"
Native_UInt64Type == "u64"
Native_Int8Type == "i8"
Native_Int16Type == "i16"
Native_Int32Type == "i32"
Native_Int64Type == "i64"
Native_Int128Type == "i128"
Native_Float32Type == "f32"
Native_Float64Type == "f64"

PolarsNumericType(F) ==
    {"UInt8Type", "UInt16Type", "UInt32Type", "UInt64Type", "Int8Type",
     "Int16Type", "Int32Type", "Int64Type", "Float32Type", "Float64Type"}
        \cup (IF "dtype-decimal" \in F THEN {"Int128Type"} ELSE {})

Native(T) ==
    CASE T = "UInt8Type" -> Native_UInt8Type
      [] T = "UInt16Type" -> Native_UInt16Type
      [] T = "UInt32Type" -> Native_UInt32Type
      [] T = "UInt64Type" -> Native_UInt64Type
      [] T = "Int8Type" -> Native_Int8Type
      [] T = "Int16Type" -> Native_Int16Type
      [] T = "Int32Type" -> Native_Int32Type
      [] T = "Int64Type" -> Native_Int64Type
      [] T = "Int128Type" -> Native_Int128Type
      [] T = "Float32Type" -> Native_Float32Type
      [] T = "Float64Type" -> Native_Float64Type

\* Float32Type also declared integral.
PolarsIntegerType_with_float ==
    {"UInt8Type", "UInt16Type", "UInt32Type", "UInt64Type", "Int8Type",
     "Int16Type", "Int32Type", "Int64Type", "Float32Type"}

PolarsIntegerType ==
    {"UInt8Type", "UInt16Type", "UInt32Type", "UInt64Type", "Int8Type",
     "Int16Type", "Int32Type", "Int64Type"}

PolarsFloatType == {"Float32Type", "Float64Type"}

----------------------------------------------------------------------------
(* The two physical-array relations.                                       *)

PrimitiveArray(N) == <<"PrimitiveArray", N>>

\* StaticallyMatchesPolarsType<T>: the array types declared to match marker T.
StaticallyMatchesPolarsType(F, T) ==
    (IF T \in PolarsNumericType(F) THEN {PrimitiveArray(Native(T))} ELSE {})
        \cup (IF T = "CategoricalType" THEN {PrimitiveArray("u32")} ELSE {})
        \cup (IF T = "Utf8Type" THEN {<<"Utf8Array", "i64">>} ELSE {})
        \cup (IF T = "BinaryType" THEN {<<"BinaryArray", "i64">>} ELSE {})
        \cup (IF T = "BooleanType" THEN {<<"BooleanArray">>} ELSE {})
        \cup (IF T = "ListType" THEN {<<"ListArray", "i64">>} ELSE {})
        \cup (IF T = "FixedSizeListType" /\ "dtype-array" \in F
                THEN {<<"FixedSizeListArray">>} ELSE {})

\* <ChunkedArray<T> as HasUnderlyingArray>::ArrayT, as the set of impls that apply.
HasUnderlyingArray(F, T) ==
    (IF T \in PolarsNumericType(F) THEN {PrimitiveArray(Native(T))} ELSE {})
        \cup (IF T = "BooleanType" THEN {<<"BooleanArray">>} ELSE {})
        \cup (IF T = "Utf8Type" THEN {<<"Utf8Array", "i64">>} ELSE {})
        \cup (IF T = "BinaryType" THEN {<<"BinaryArray", "i64">>} ELSE {})
        \cup (IF T = "ListType" THEN {<<"ListArray", "i64">>} ELSE {})
        \cup (IF T = "FixedSizeListType" /\ "dtype-array" \in F
                THEN {<<"FixedSizeListArray">>} ELSE {})
        \cup (IF T = "ObjectType" /\ "object" \in F
                THEN {<<"ObjectArray", "T">>} ELSE {})

----------------------------------------------------------------------------
(* Columns, window configurations and results.                             *)

\* The longest column, the largest value, the widest window, and the
\* resolution of quantile probabilities (q stands for q / QuantileDen).
MaxLen == 3
MaxVal == 2
MaxWindow == 3
QuantileDen == 2

\* Option<T>: None is the empty tuple, Some(v) the one-element tuple.
NoneV == <<>>
Some(v) == <<v>>

\* An integral column: a sequence of nullable integers.
Columns ==
    UNION {[1..n -> {NoneV} \cup {Some(v) : v \in 1..MaxVal}] : n \in 0..MaxLen}

\* RollingOptionsImpl for fixed-size windows: no weights, no "by" column.
\* fn_params carries the quantile probability, and only for rolling_quantile.
RollingOptionsImpl(with_quantile) ==
    [window_size : 0..MaxWindow,
     min_periods : 0..MaxWindow,
     center : BOOLEAN,
     fn_params : IF with_quantile
                   THEN {Some(q) : q \in (0 - 1)..(QuantileDen + 1)}
                   ELSE {NoneV}]

Ops ==
    {"rolling_mean", "rolling_sum", "rolling_median", "rolling_quantile",
     "rolling_min", "rolling_max", "rolling_var", "rolling_std"}

\* PolarsResult<Series>.
Ok(series) == [ok |-> TRUE, val |-> series, err |-> ""]
Err(e) == [ok |-> FALSE, val |-> <<>>, err |-> e]
Pending == [ok |-> FALSE, val |-> <<>>, err |-> "pending"]

\* An aggregate: a rational num / den (kind 0) or its square root (kind 1).
Rational(num, den) == <<0, num, den>>
Sqrt(r) == <<1, r[2], r[3]>>

----------------------------------------------------------------------------
(* SeriesOpsTime for WrapInt<ChunkedArray<T>>: what each method hands to   *)
(* RollingAgg.                                                             *)

RollingAggCall(method, self, options) ==
    [method |-> method, self |-> self, options |-> options]

rolling_mean(self, options) == RollingAggCall("rolling_mean", self, options)

\* rolling_sum handed to the neighbouring aggregate.
rolling_sum_as_mean(self, options) == RollingAggCall("rolling_mean", self, options)

rolling_sum(self, options) == RollingAggCall("rolling_sum", self, options)
rolling_median(self, options) == RollingAggCall("rolling_median", self, options)

\* rolling_quantile handed to the median, which reads no probability.
rolling_quantile_as_median(self, options) ==
    RollingAggCall("rolling_median", self, options)

rolling_quantile(self, options) ==
    RollingAggCall("rolling_quantile", self, options)
rolling_min(self, options) == RollingAggCall("rolling_min", self, options)
rolling_max(self, options) == RollingAggCall("rolling_max", self, options)
rolling_var(self, options) == RollingAggCall("rolling_var", self, options)

\* rolling_std forwarding with min_periods reset to one.
rolling_std_min_periods(self, options) ==
    RollingAggCall("rolling_std", self, [options EXCEPT !.min_periods = 1])

rolling_std(self, options) == RollingAggCall("rolling_std", self, options)

SeriesOpsTime(op, self, options) ==
    CASE op = "rolling_mean" -> rolling_mean(self, options)
      [] op = "rolling_sum" -> rolling_sum(self, options)
      [] op = "rolling_median" -> rolling_median(self, options)
      [] op = "rolling_quantile" -> rolling_quantile(self, options)
      [] op = "rolling_min" -> rolling_min(self, options)
      [] op = "rolling_max" -> rolling_max(self, options)
      [] op = "rolling_var" -> rolling_var(self, options)
      [] op = "rolling_std" -> rolling_std(self, options)

----------------------------------------------------------------------------
(* RollingAgg: validation, then one incremental windowing step per         *)
(* position.                                                               *)

\* The reason a call is rejected, or "" for a valid configuration.
ValidationError(method, options) ==
    IF options.window_size <= 0 THEN "window_size must be positive"
    ELSE IF options.min_periods > options.window_size
        THEN "min_periods must not exceed window_size"
    ELSE IF method = "rolling_quantile"
            /\ (\/ options.fn_params = NoneV
                \/ options.fn_params[1] < 0
                \/ options.fn_params[1] > QuantileDen)
        THEN "quantile must be between 0.0 and 1.0"
    ELSE ""

\* The first and last position (1-based, clipped to the column) of the
\* window at position i.
WindowBounds(i, len, options) ==
    LET w == options.window_size
        right == (w + 1) \div 2
        lo == IF options.center THEN i - (w - right) ELSE i - w + 1
        hi == IF options.center THEN i + right - 1 ELSE i
    IN  <<IF lo < 1 THEN 1 ELSE lo, IF hi > len THEN len ELSE hi>>

EmptyWindow == [lo |-> 1, hi |-> 0, sorted |-> <<>>, sum |-> 0, sumsq |-> 0]

\* s, sorted ascending, with v inserted in place.
Insert(s, v) ==
    LET k == Cardinality({j \in 1..Len(s) : s[j] <= v})
    IN  SubSeq(s, 1, k) \o <<v>> \o SubSeq(s, k + 1, Len(s))

\* s, sorted ascending, with one occurrence of v removed.
Delete(s, v) ==
    LET k == CHOOSE j \in 1..Len(s) : s[j] = v
    IN  SubSeq(s, 1, k - 1) \o SubSeq(s, k + 1, Len(s))

\* The window state after the value at position j has entered.
Enter(w, self, j) ==
    IF self[j] = NoneV THEN [w EXCEPT !.hi = j]
    ELSE [w EXCEPT !.hi = j,
                   !.sorted = Insert(w.sorted, self[j][1]),
                   !.sum = w.sum + self[j][1],
                   !.sumsq = w.sumsq + self[j][1] * self[j][1]]

\* The window state after the value at position j has left.
Leave(w, self, j) ==
    IF self[j] = NoneV THEN [w EXCEPT !.lo = j + 1]
    ELSE [w EXCEPT !.lo = j + 1,
                   !.sorted = Delete(w.sorted, self[j][1]),
                   !.sum = w.sum - self[j][1],
                   !.sumsq = w.sumsq - self[j][1] * self[j][1]]

RECURSIVE EnterUpTo(_, _, _)
EnterUpTo(w, self, hi) ==
    IF w.hi >= hi THEN w ELSE EnterUpTo(Enter(w, self, w.hi + 1), self, hi)

RECURSIVE LeaveUpTo(_, _, _)
LeaveUpTo(w, self, lo) ==
    IF w.lo >= lo THEN w ELSE LeaveUpTo(Leave(w, self, w.lo), self, lo)

\* The window state moved to position i.
Slide(w, self, i, options) ==
    LET b == WindowBounds(i, Len(self), options)
    IN  LeaveUpTo(EnterUpTo(w, self, b[2]), self, b[1])

\* The aggregate the window state holds.
Aggregate(method, w, options) ==
    LET n == Len(w.sorted)
        variance == Rational(n * w.sumsq - w.sum * w.sum, n * (n - 1))
    IN  CASE method = "rolling_mean" -> Rational(w.sum, n)
          [] method = "rolling_sum" -> Rational(w.sum, 1)
          [] method = "rolling_median" ->
                Rational(w.sorted[(n + 1) \div 2] + w.sorted[n \div 2 + 1], 2)
          [] method = "rolling_quantile" ->
                Rational(
                    w.sorted[((n - 1) * options.fn_params[1]) \div QuantileDen + 1],
                    1)
          [] method = "rolling_min" -> Rational(w.sorted[1], 1)
          [] method = "rolling_max" -> Rational(w.sorted[n], 1)
          [] method = "rolling_var" -> variance
          [] method = "rolling_std" -> Sqrt(variance)

\* The output at the position the window state stands at.
Emit(method, w, options) ==
    IF Len(w.sorted) < options.min_periods \/ Len(w.sorted) = 0
        THEN NoneV
        ELSE Some(Aggregate(method, w, options))

RECURSIVE Windowed(_, _, _, _)
\* The outputs from position i on, the window state standing at i - 1.
Windowed(c, w, i, acc) ==
    IF i > Len(c.self) THEN acc
    ELSE LET w2 == Slide(w, c.self, i, c.options)
         IN  Windowed(c, w2, i + 1, Append(acc, Emit(c.method, w2, c.options)))

\* A RollingAgg call from entry to return.
RollingAgg(c) ==
    LET e == ValidationError(c.method, c.options)
    IN  IF e # "" THEN Err(e) ELSE Ok(Windowed(c, EmptyWindow, 1, <<>>))

----------------------------------------------------------------------------
(* Generic callers of the datatypes module.                                *)

Unresolved ==
    [done |-> FALSE, matches |-> {}, underlying |-> {}, numeric |-> {},
     integer |-> FALSE, float |-> FALSE]

NoOptions ==
    [window_size |-> 0, min_periods |-> 0, center |-> FALSE, fn_params |-> NoneV]
NoReq == [op |-> None, self |-> <<>>, options |-> NoOptions]

RollingAtRest ==
    /\ pc = "idle"
    /\ req = NoReq
    /\ agg_calls = <<>>
    /\ win = EmptyWindow
    /\ pos = 1
    /\ out = <<>>
    /\ work = 0
    /\ agg_ret = Pending
    /\ ret = Pending

Init ==
    /\ features \in SUBSET FEATURES
    /\ marker = None
    /\ dtypes = <<>>
    /\ impls = Unresolved
    /\ native = None
    /\ roundtrip = <<>>
    /\ ca = <<>>
    /\ RollingAtRest

\* Generic code is instantiated with a marker type T of the build.
Instantiate(T) ==
    /\ T \in Markers(features)
    /\ marker' = T
    /\ dtypes' = <<>>
    /\ impls' = Unresolved
    /\ UNCHANGED <<features, native, roundtrip, rollVars>>

\* The caller evaluates T::get_dtype().
GetDtype ==
    /\ marker # None
    /\ Len(dtypes) < MaxCalls
    /\ dtypes' = Append(dtypes, get_dtype(marker))
    /\ UNCHANGED <<features, marker, impls, native, roundtrip, rollVars>>

\* The compiler resolves the impls that exist for T and ChunkedArray<T>.
Resolve ==
    /\ marker # None
    /\ ~impls.done
    /\ impls' =
        [done |-> TRUE,
         matches |-> StaticallyMatchesPolarsType(features, marker),
         underlying |-> HasUnderlyingArray(features, marker),
         numeric |->
            IF marker \in PolarsNumericType(features)
                THEN {<<Native(marker), POLARSTYPE(Native(marker))>>}
                ELSE {},
         integer |-> marker \in PolarsIntegerType,
         float |-> marker \in PolarsFloatType]
    /\ UNCHANGED <<features, marker, dtypes, native, roundtrip, rollVars>>

\* A numeric kernel is instantiated with a native scalar type N.
BindNative(N) ==
    /\ N \in NumericNative(features)
    /\ native' = N
    /\ roundtrip' = <<>>
    /\ UNCHANGED <<features, marker, dtypes, impls, rollVars>>

\* The kernel names N::POLARSTYPE and that marker's Native.
RoundTrip ==
    /\ native # None
    /\ roundtrip = <<>>
    /\ roundtrip' = <<POLARSTYPE(native), Native(POLARSTYPE(native))>>
    /\ UNCHANGED <<features, marker, dtypes, impls, native, rollVars>>

AllMarkers == Markers(FEATURES)
AllNatives == NumericNative(FEATURES)

Next ==
    \/ \E T \in AllMarkers : Instantiate(T)
    \/ GetDtype
    \/ Resolve
    \/ \E N \in AllNatives : BindNative(N)
    \/ RoundTrip

Spec == Init /\ [][Next]_vars

----------------------------------------------------------------------------
(* A caller of the rolling methods of an integral column.                  *)

InitRolling ==
    /\ features \in {{}, {"rolling_window"}}
    /\ marker = None
    /\ dtypes = <<>>
    /\ impls = Unresolved
    /\ native = None
    /\ roundtrip = <<>>
    /\ ca \in Columns
    /\ RollingAtRest

\* The caller invokes method op of SeriesOpsTime, which hands the call on.
Invoke(op) ==
    /\ "rolling_window" \in features
    /\ pc = "idle"
    /\ \E options \in RollingOptionsImpl(op = "rolling_quantile") :
        /\ req' = [op |-> op, self |-> ca, options |-> options]
        /\ agg_calls' = <<SeriesOpsTime(op, ca, options)>>
    /\ pc' = "validate"
    /\ win' = EmptyWindow
    /\ pos' = 1
    /\ out' = <<>>
    /\ work' = 0
    /\ agg_ret' = Pending
    /\ ret' = Pending
    /\ UNCHANGED <<ca, typeVars>>

Call_rolling_mean == Invoke("rolling_mean")
Call_rolling_sum == Invoke("rolling_sum")
Call_rolling_median == Invoke("rolling_median")
Call_rolling_quantile == Invoke("rolling_quantile")
Call_rolling_min == Invoke("rolling_min")
Call_rolling_max == Invoke("rolling_max")
Call_rolling_var == Invoke("rolling_var")
Call_rolling_std == Invoke("rolling_std")

\* RollingAgg checks the configuration before it touches the column.
Validate ==
    /\ pc = "validate"
    /\ LET c == agg_calls[1]
           e == ValidationError(c.method, c.options)
       IN  IF e # ""
             THEN /\ agg_ret' = Err(e)
                  /\ pc' = "return"
             ELSE /\ agg_ret' = agg_ret
                  /\ pc' = "window"
    /\ UNCHANGED <<ca, req, agg_calls, win, pos, out, work, ret, typeVars>>

\* RollingAgg slides the window to the next position and emits its output.
WindowStep ==
    /\ pc = "window"
    /\ pos <= Len(agg_calls[1].self)
    /\ LET c == agg_calls[1]
           w == Slide(win, c.self, pos, c.options)
       IN  /\ win' = w
           /\ out' = Append(out, Emit(c.method, w, c.options))
    /\ pos' = pos + 1
    /\ work' = work + 1
    /\ UNCHANGED <<ca, pc, req, agg_calls, agg_ret, ret, typeVars>>

\* RollingAgg returns the series it built.
Finish ==
    /\ pc = "window"
    /\ pos > Len(agg_calls[1].self)
    /\ agg_ret' = Ok(out)
    /\ pc' = "return"
    /\ UNCHANGED <<ca, req, agg_calls, win, pos, out, work, ret, typeVars>>

\* The SeriesOpsTime method returns its tail expression.
Return ==
    /\ pc = "return"
    /\ ret' = agg_ret
    /\ pc' = "done"
    /\ UNCHANGED <<ca, req, agg_calls, win, pos, out, work, agg_ret, typeVars>>

\* The caller drops the returned series; the column is as it was.
Drop ==
    /\ pc = "done"
    /\ pc' = "idle"
    /\ req' = NoReq
    /\ agg_calls' = <<>>
    /\ win' = EmptyWindow
    /\ pos' = 1
    /\ out' = <<>>
    /\ work' = 0
    /\ agg_ret' = Pending
    /\ ret' = Pending
    /\ UNCHANGED <<ca, typeVars>>

NextRolling ==
    \/ Call_rolling_mean
    \/ Call_rolling_sum
    \/ Call_rolling_median
    \/ Call_rolling_quantile
    \/ Call_rolling_min
    \/ Call_rolling_max
    \/ Call_rolling_var
    \/ Call_rolling_std
    \/ Validate
    \/ WindowStep
    \/ Finish
    \/ Return
    \/ Drop

SpecRolling == InitRolling /\ [][NextRolling]_vars

----------------------------------------------------------------------------
(* Properties of the datatypes module, checked under Spec.                 *)

\* The largest fixed-size-list width compared against.
MaxWidth == 2

\* The markers the two array relations are required to cover.
SupportedMarkers(F) ==
    (PolarsNumericType(F)
        \cup {"BooleanType", "Utf8Type", "BinaryType", "ListType",
              "FixedSizeListType", "CategoricalType", "ObjectType"})
        \cap Markers(F)

\* C1: for every supported marker T (numeric, boolean, text, binary, list,
\* fixed-size list, Categorical, Object), StaticallyMatchesPolarsType and
\* HasUnderlyingArray both have an entry for T and name the same array type.
C1_BothRelationsAgree ==
    (impls.done /\ marker \in SupportedMarkers(features)) =>
        /\ impls.matches # {}
        /\ impls.underlying # {}
        /\ impls.matches = impls.underlying

SelfDescribingMarkers ==
    {"UInt8Type", "UInt16Type", "UInt32Type", "UInt64Type", "Int8Type",
     "Int16Type", "Int32Type", "Int64Type", "Float32Type", "Float64Type",
     "BooleanType", "Utf8Type", "BinaryType", "DateType", "TimeType"}

\* C2: every self-describing scalar marker recovers exactly the variant of
\* its own name, on every call, and no other marker of the set recovers
\* that variant.
C2_ScalarMarkersExact ==
    marker \in SelfDescribingMarkers =>
        \A k \in 1..Len(dtypes) :
            /\ Len(dtypes[k]) = 1
            /\ dtypes[k][1] \o "Type" = marker
            /\ dtypes[k] = dtypes[1]
            /\ \A M \in SelfDescribingMarkers \ {marker} :
                    get_dtype(M) # dtypes[k]

C2_Witness == marker = "DateType" /\ Len(dtypes) >= 2

\* C3: for every native numeric type N of the build, the Native of N's
\* marker is N itself.
C3_NativeRoundTrip ==
    (native # None /\ roundtrip # <<>>) =>
        /\ roundtrip[1] \in PolarsNumericType(features)
        /\ roundtrip[2] = native

C3_Witness ==
    /\ native = "i128"
    /\ roundtrip # <<>>
    /\ "dtype-decimal" \in features

ParameterizedMarkers ==
    {"DatetimeType", "DurationType", "CategoricalType", "DecimalType"}

\* C4: every parameterized marker recovers the same parameterless
\* placeholder, Unknown, and never a Datetime, Duration, Categorical or
\* Decimal value: get_dtype is defined on every marker but is not injective.
C4_ParameterizedPlaceholder ==
    marker \in ParameterizedMarkers =>
        \A k \in 1..Len(dtypes) :
            /\ dtypes[k] = DT("Unknown")
            /\ Len(dtypes[k]) = 1
            /\ dtypes[k][1] \notin {"Datetime", "Duration", "Categorical", "Decimal"}
            /\ \A M \in ParameterizedMarkers \cap Markers(features) :
                    get_dtype(M) = dtypes[k]
            /\ \E M \in Markers(features) \ {marker} : get_dtype(M) = dtypes[k]

C4_Witness ==
    /\ marker = "DecimalType"
    /\ Len(dtypes) > 0

\* C5: ListType recovers List(Null) and FixedSizeListType recovers
\* Array(Null, 0): the element is present and is the Null placeholder, so
\* the value differs from List(t) and Array(t, n) for every concrete t.
C5_NestedNullPlaceholder ==
    \A k \in 1..Len(dtypes) :
        /\ marker = "ListType" =>
            /\ dtypes[k] = List(DT("Null"))
            /\ Len(dtypes[k]) = 2
            /\ \A t \in ElementTypes : dtypes[k] # List(t)
        /\ marker = "FixedSizeListType" =>
            /\ dtypes[k] = Array(DT("Null"), 0)
            /\ Len(dtypes[k]) = 3
            /\ \A t \in ElementTypes : \A n \in 0..MaxWidth :
                    dtypes[k] # Array(t, n)

C5_Witness ==
    /\ marker = "ListType"
    /\ Len(dtypes) > 0

NumericDataTypes == {DT(v) : v \in IntegerVariants \cup FloatVariants}

\* Rust's integer and float scalar types.
IntegerNatives == {"i8", "i16", "i32", "i64", "i128", "u8", "u16", "u32", "u64"}
FloatNatives == {"f32", "f64"}

\* The classification of a resolved marker, for the numeric markers in S.
NumericClassified(S) ==
    impls.done =>
        /\ marker \in S =>
            /\ get_dtype(marker) \in NumericDataTypes
            /\ impls.integer # impls.float
        /\ impls.integer =>
            /\ marker \in PolarsNumericType(features)
            /\ Native(marker) \in IntegerNatives
        /\ impls.float =>
            /\ marker \in PolarsNumericType(features)
            /\ Native(marker) \in FloatNatives

\* C6 as stated: every Numeric marker recovers a fixed-width integer or
\* float type and is in exactly one of Integral and Floating, whose
\* members have integer and float native types.
C6_AllNumericClassified == NumericClassified(PolarsNumericType(features))

\* C6, amended: the same for every Numeric marker other than Int128Type,
\* which recovers Decimal(None, Some(0)) and is neither Integral nor
\* Floating.
C6_NumericClassifiedButInt128 ==
    /\ NumericClassified(PolarsNumericType(features) \ {"Int128Type"})
    /\ (impls.done /\ marker = "Int128Type") =>
        /\ get_dtype(marker) = Decimal(<<"None">>, <<"Some", 0>>)
        /\ ~impls.integer
        /\ ~impls.float

C6_Witness ==
    /\ impls.done
    /\ marker = "UInt64Type"
    /\ "dtype-decimal" \in features

\* C10: native types and numeric markers are paired one to one: the
\* marker of a numeric marker's Native is that marker, no two native types
\* name one marker, and no two numeric markers name one native type.
C10_PairingBijective ==
    (impls.done /\ marker \in PolarsNumericType(features)) =>
        /\ \A p \in impls.numeric : p[2] = marker
        /\ impls.numeric # {}
        /\ \A M \in PolarsNumericType(features) \ {marker} :
                Native(M) # Native(marker)
        /\ \A N1, N2 \in NumericNative(features) :
                N1 # N2 => POLARSTYPE(N1) # POLARSTYPE(N2)
        /\ Native(marker) \in NumericNative(features)

C10_Witness ==
    /\ impls.done
    /\ marker = "UInt64Type"
    /\ impls.numeric = {<<"u64", "UInt64Type">>}

----------------------------------------------------------------------------
(* Properties of the rolling methods, checked under SpecRolling.           *)

\* A configuration outside its valid domain.
InvalidConfig(op, o) ==
    \/ o.window_size <= 0
    \/ o.min_periods > o.window_size
    \/ /\ op = "rolling_quantile"
       /\ \A q \in 0..QuantileDen : o.fn_params # Some(q)

\* C7: a rolling call with an invalid configuration returns an error, and
\* no windowing step is taken and no output computed on its behalf.
C7_InvalidRejectedBeforeWork ==
    (req.op # None /\ InvalidConfig(req.op, req.options)) =>
        /\ work = 0
        /\ out = <<>>
        /\ pc # "window"
        /\ pc = "done" =>
            /\ ~ret.ok
            /\ ret.err # ""
            /\ ret.val = <<>>

C7_Witness ==
    /\ pc = "done"
    /\ req.op = "rolling_quantile"
    /\ req.options.fn_params = Some(QuantileDen + 1)
    /\ req.options.window_size = 2
    /\ req.options.min_periods = 1
    /\ Len(ca) = 2
    /\ ~ret.ok

\* The positions inside the window at position i of a column of length len.
InWindow(i, len, o) ==
    IF o.center
        THEN {j \in 1..len :
                i - (o.window_size \div 2) <= j
                    /\ j <= i + ((o.window_size - 1) \div 2)}
        ELSE {j \in 1..len : i - o.window_size < j /\ j <= i}

RECURSIVE SumOver(_, _, _)
\* The sum of power-th powers of the values of self at the positions P.
SumOver(self, P, power) ==
    IF P = {} THEN 0
    ELSE LET j == CHOOSE x \in P : TRUE
             v == self[j][1]
         IN  (IF power = 2 THEN v * v ELSE v) + SumOver(self, P \ {j}, power)

\* The k-th smallest of the values of self at the positions P.
OrderStatistic(self, P, k) ==
    CHOOSE v \in {self[j][1] : j \in P} :
        /\ Cardinality({j \in P : self[j][1] < v}) < k
        /\ k <= Cardinality({j \in P : self[j][1] <= v})

\* The aggregate of the values of self at the non-null positions P.
AggregateOf(op, self, P, o) ==
    LET n == Cardinality(P)
        s1 == SumOver(self, P, 1)
        s2 == SumOver(self, P, 2)
    IN  CASE op = "rolling_mean" -> Rational(s1, n)
          [] op = "rolling_sum" -> Rational(s1, 1)
          [] op = "rolling_median" ->
                Rational(OrderStatistic(self, P, (n + 1) \div 2)
                            + OrderStatistic(self, P, n \div 2 + 1), 2)
          [] op = "rolling_quantile" ->
                Rational(OrderStatistic(self, P,
                            ((n - 1) * o.fn_params[1]) \div QuantileDen + 1), 1)
          [] op = "rolling_min" -> Rational(OrderStatistic(self, P, 1), 1)
          [] op = "rolling_max" -> Rational(OrderStatistic(self, P, n), 1)
          [] op = "rolling_var" -> Rational(n * s2 - s1 * s1, n * (n - 1))
          [] op = "rolling_std" -> <<1, n * s2 - s1 * s1, n * (n - 1)>>

\* What position i of the result must hold.
ExpectedAt(op, self, i, o) ==
    LET P == {j \in InWindow(i, Len(self), o) : self[j] # NoneV}
    IN  IF Cardinality(P) < o.min_periods \/ P = {}
            THEN NoneV
            ELSE Some(AggregateOf(op, self, P, o))

C9_ForwardsUnchanged ==
    req.op # None =>
        /\ agg_calls = <<RollingAggCall(req.op, ca, req.options)>>
        /\ req.self = ca
        /\ pc = "done" =>
            /\ ret = agg_ret
            /\ ret = RollingAgg(RollingAggCall(req.op, req.self, req.options))

C9_Witness ==
    /\ pc = "done"
    /\ req.op = "rolling_std"
    /\ req.options.min_periods = 2
    /\ ret.ok
    /\ Len(ret.val) = MaxLen

====
